---- MODULE Spec2Model ----
(***************************************************************************)
(* Model of generate_icons.py: the icon renderer create_blockbuster_icon   *)
(* and the icon-set builder main.                                          *)
(*                                                                         *)
(* An image is modelled by the drawing calls that produced it (the yellow  *)
(* rectangles, the text calls, and whether the alpha channel was replaced  *)
(* by the corner mask); pixel values the properties need are computed from *)
(* that record.  Glyph metrics come from the font file and are not         *)
(* modelled; status lines are modelled without their emoji prefix.         *)
(***************************************************************************)
EXTENDS Integers, Sequences, FiniteSets, TLC

(* ---------------------------------------------------------------------- *)
(* Bounds                                                                  *)
(* ---------------------------------------------------------------------- *)
\* Renderer inputs are every size in 1..MaxSize plus the sizes main renders.
MaxSize == 300
\* Number of times the build is run one after the other.
MaxRuns == 2

(* ---------------------------------------------------------------------- *)
(* Helpers                                                                 *)
(* ---------------------------------------------------------------------- *)
Max(a, b) == IF a >= b THEN a ELSE b

\* len(range(0, stop, step)) for positive step
RangeLen(stop, step) == (stop + step - 1) \div step

\* An exception propagating out of a call.
Raised == [raised |-> TRUE]

IsRaised(v) == "raised" \in DOMAIN v /\ v.raised

(* ---------------------------------------------------------------------- *)
(* create_blockbuster_icon                                                 *)
(* ---------------------------------------------------------------------- *)
border_width(size) == Max(2, size \div 64)

ticket_indent(size) == size \div 8

\* The two ticket punches, boxes <<x0, y0, x1, y1>>.
TicketPunches(size) ==
    << <<0, ticket_indent(size),
         border_width(size) * 3, ticket_indent(size) + size \div 16>>,
       <<size - border_width(size) * 3, ticket_indent(size),
         size, ticket_indent(size) + size \div 16>> >>

\* tear_height of the strip that starts at x = i
tear_height(size, i) == (i % 2) * border_width(size) + border_width(size)

\* The rectangles drawn along the top edge, in drawing order.
TopStrips(size) ==
    IF size >= 64
    THEN [k \in 1..RangeLen(size, size \div 16) |->
            LET i == (k - 1) * (size \div 16)
            IN  <<i, 0, i + size \div 16, tear_height(size, i)>>]
    ELSE << <<0, 0, size, border_width(size)>> >>

\* The rectangles drawn along the bottom edge, in drawing order.
BottomStrips(size) ==
    IF size >= 64
    THEN [k \in 1..RangeLen(size, size \div 16) |->
            LET i == (k - 1) * (size \div 16)
            IN  <<i, size - tear_height(size, i), i + size \div 16, size>>]
    ELSE << <<0, size - border_width(size), size, size>> >>

\* Left and right borders.
SideBorders(size) ==
    << <<0, 0, border_width(size) * 2, size>>,
       <<size - border_width(size) * 2, 0, size, size>> >>

\* ImageFont.truetype(path, font_size) inside try/except: the preferred
\* font when the load succeeds, ImageFont.load_default() when it raises.
LoadFont_NoFallback(ok, font_size) ==
    IF ok THEN [kind |-> "truetype", size |-> font_size] ELSE Raised

LoadFont(ok, font_size) ==
    IF ok THEN [kind |-> "truetype", size |-> font_size]
          ELSE [kind |-> "default", size |-> 0]

\* One draw.text call: the label, its fill alpha, the font, and the offset
\* of the call from the label's position (a shadow is the same label drawn
\* first, offset, in translucent black).
TextCall(label, fill, alpha, offset, font) ==
    [text |-> label, fill |-> fill, alpha |-> alpha, offset |-> offset,
     font |-> font]

\* The text calls of one render, in drawing order; ok1 / ok2 tell whether
\* the preferred font loads for the primary / secondary label.
TextCalls_ShadowEverywhere(size, ok1, ok2) ==
    IF size >= 32
    THEN LET font == LoadFont(ok1, size \div 8)
             font_small == LoadFont(ok2, size \div 16)
         IN  << TextCall("N64", "black", 128, 2, font),
                TextCall("N64", "yellow", 255, 0, font) >>
             \o (IF size >= 256
                 THEN << TextCall("EMULATOR", "black", 128, 1, font_small),
                         TextCall("EMULATOR", "yellow", 255, 0, font_small) >>
                 ELSE << >>)
    ELSE << >>

TextCalls(size, ok1, ok2) ==
    IF size >= 128
    THEN LET font == LoadFont(ok1, size \div 8)
             font_small == LoadFont(ok2, size \div 16)
         IN  << TextCall("N64", "black", 128, 2, font),
                TextCall("N64", "yellow", 255, 0, font) >>
             \o (IF size >= 256
                 THEN << TextCall("EMULATOR", "black", 128, 1, font_small),
                         TextCall("EMULATOR", "yellow", 255, 0, font_small) >>
                 ELSE << >>)
    ELSE IF size >= 32
    THEN LET font == LoadFont(ok1, size \div 4)
         IN  << TextCall("N64", "yellow", 255, 0, font) >>
    ELSE << >>

\* Whether the alpha channel is replaced by the corner mask.
HasMask_Never(size) == FALSE

HasMask(size) == size >= 64

radius(size) == size \div 8

\* The four ellipses drawn with fill=0 on the mask: bounding boxes.
MaskEllipses(size) ==
    LET r == radius(size)
    IN  << <<0, 0, r * 2, r * 2>>,
           <<size - r * 2, 0, size, r * 2>>,
           <<0, size - r * 2, r * 2, size>>,
           <<size - r * 2, size - r * 2, size, size>> >>

\* Position of pixel (x, y) relative to the ellipse inscribed in box b:
\* "in", "out", or "edge" when the pixel is within about one pixel of the
\* outline, where the rasterizer decides.  Boxes here are squares of side
\* 2r, so the ellipse is the circle of radius r around the box centre.
InEllipse(b, x, y) ==
    LET r  == (b[3] - b[1]) \div 2
        d2 == (x - (b[1] + r)) * (x - (b[1] + r))
              + (y - (b[2] + r)) * (y - (b[2] + r))
    IN  IF d2 <= (r - 1) * (r - 1) THEN "in"
        ELSE IF d2 >= (r + 1) * (r + 1) THEN "out"
        ELSE "edge"

\* Values the mask can have at (x, y): 255 from Image.new('L', ..., 255)
\* and the full rectangle, 0 inside any of the four ellipses.
MaskAt(size, x, y) ==
    LET pos == {InEllipse(MaskEllipses(size)[k], x, y) : k \in 1..4}
    IN  IF "in" \in pos THEN {0}
        ELSE IF "edge" \in pos THEN {0, 255}
        ELSE {255}

\* The image create_blockbuster_icon(size) returns, or Raised.
create_blockbuster_icon(size, ok1, ok2) ==
    LET texts == TextCalls(size, ok1, ok2)
    IN  IF \E k \in 1..Len(texts) : IsRaised(texts[k].font)
        THEN Raised
        ELSE [raised |-> FALSE,
              size   |-> size,
              top    |-> TopStrips(size),
              bottom |-> BottomStrips(size),
              rects  |-> TicketPunches(size) \o SideBorders(size),
              texts  |-> texts,
              masked |-> HasMask(size)]

\* Alpha values pixel (x, y) of a returned image can have.  The canvas is
\* created opaque and yellow is opaque; a text call with a translucent fill
\* can lower the alpha where its glyphs fall; putalpha replaces the channel.
AlphaAt(image, x, y) ==
    IF image.masked THEN MaskAt(image.size, x, y)
    ELSE IF \E k \in 1..Len(image.texts) : image.texts[k].alpha < 255
    THEN 128..255
    ELSE {255}

(* ---------------------------------------------------------------------- *)
(* main                                                                    *)
(* ---------------------------------------------------------------------- *)
output_dir == "Resources/AppIcon.appiconset"

sizes == <<16, 32, 64, 128, 256, 512, 1024>>

\* f"icon_{size}x{size}.png"
filename(size) == "icon_" \o ToString(size) \o "x" \o ToString(size) \o ".png"

\* f"icon_{size}x{size}@2x.png"
filename_2x_PixelSize(size) ==
    "icon_" \o ToString(size * 2) \o "x" \o ToString(size * 2) \o ".png"

filename_2x(size) ==
    "icon_" \o ToString(size) \o "x" \o ToString(size) \o "@2x.png"

\* if size <= 512: also create the @2x version
Has2x_Below512(size) == size < 512

Has2x(size) == size <= 512

ManifestEntry(name, scale, logical) ==
    [filename |-> name, idiom |-> "mac", scale |-> scale, size |-> logical]

\* The images array of the contents_json literal.
contents_json ==
    << ManifestEntry("icon_16x16.png",      "1x", "16x16"),
       ManifestEntry("icon_16x16@2x.png",   "2x", "16x16"),
       ManifestEntry("icon_32x32.png",      "1x", "32x32"),
       ManifestEntry("icon_32x32@2x.png",   "2x", "32x32"),
       ManifestEntry("icon_128x128.png",    "1x", "128x128"),
       ManifestEntry("icon_128x128@2x.png", "2x", "128x128"),
       ManifestEntry("icon_256x256.png",    "1x", "256x256"),
       ManifestEntry("icon_256x256@2x.png", "2x", "256x256"),
       ManifestEntry("icon_512x512.png",    "1x", "512x512"),
       ManifestEntry("icon_512x512@2x.png", "2x", "512x512") >>

\* Content of a file after open(path, 'w') and write(text).
WriteText_Append(old, text) == old \o text

WriteText(old, text) == text

\* Content of a PNG written by icon.save: the pixel dimensions.
PngOf(icon) == [png |-> icon.size]

\* The directory after writing content under name.
Store(dir, name, content) ==
    [n \in DOMAIN dir \cup {name} |-> IF n = name THEN content ELSE dir[n]]

\* Errors os.makedirs(output_dir, exist_ok=True) can raise.
MakedirsErrors_NoExistOk(exists) ==
    IF exists THEN {"FileExistsError"} ELSE {"PermissionError"}

MakedirsErrors(exists) == {"PermissionError"}

\* Exit statuses os.system can return for the iconutil command line:
\* 0 success, 1 iconutil failed, 127 iconutil not found.
SystemStatuses == {0, 1, 127}

\* What follows the os.system call: the return value is discarded.
AfterSystem_Checked(status) == IF status = 0 THEN "report" ELSE "crashed"

AfterSystem(status) == "report"

VARIABLES
    pc,         \* position of main
    idx,        \* index into sizes of the current loop iteration
    icon,       \* the image last returned by create_blockbuster_icon
    dirExists,  \* whether output_dir exists
    fs,         \* files of output_dir: name -> content
    icns,       \* whether Resources/AppIcon.icns exists
    stdout,     \* lines printed by this run
    trace,      \* renders, writes and external calls of this run, in order
    status,     \* exit status of the packaging command, -1 before the call
    error,      \* the exception that ended this run, "none" otherwise
    run,        \* number of the current run
    history,    \* output_dir as each completed run left it
    rpc,        \* renderer alone: "call" before, "returned" after
    rsize,      \* renderer alone: the size argument
    rok1,       \* renderer alone: the preferred font loads for the primary label
    rok2,       \* renderer alone: the preferred font loads for the secondary label
    img         \* renderer alone: the value returned

vars == <<pc, idx, icon, dirExists, fs, icns, stdout, trace, status, error,
          run, history, rpc, rsize, rok1, rok2, img>>

mainVars == <<pc, idx, icon, dirExists, fs, icns, stdout, trace, status,
              error, run, history>>

renderVars == <<rpc, rsize, rok1, rok2, img>>

NoIcon == [raised |-> FALSE, size |-> 0]

EmptyDir == [n \in {} |-> 0]

Event(ev, file, px) == [ev |-> ev, file |-> file, px |-> px]

\* An unhandled exception raised while working on file: the run ends there.
Crash_Swallowed(err, file) ==
    /\ pc' = "iconutil"
    /\ error' = err
    /\ trace' = Append(trace, Event("fail", file, 0))

Crash(err, file) ==
    /\ pc' = "crashed"
    /\ error' = err
    /\ trace' = Append(trace, Event("fail", file, 0))

\* Sizes for which main calls create_blockbuster_icon.
RenderedSizes ==
    {sizes[k] : k \in 1..Len(sizes)}
    \cup {sizes[k] * 2 : k \in {j \in 1..Len(sizes) : Has2x(sizes[j])}}

Init ==
    /\ pc = "makedirs"
    /\ idx = 1
    /\ icon = NoIcon
    /\ dirExists = FALSE
    /\ fs = EmptyDir
    /\ icns = FALSE
    /\ stdout = << >>
    /\ trace = << >>
    /\ status = -1
    /\ error = "none"
    /\ run = 1
    /\ history = << >>
    /\ rpc = "idle"
    /\ rsize = 0
    /\ rok1 = FALSE
    /\ rok2 = FALSE
    /\ img = NoIcon

\* os.makedirs(output_dir, exist_ok=True); sizes = [...]; print(...)
Makedirs ==
    /\ pc = "makedirs"
    /\ \/ /\ dirExists' = TRUE
          /\ stdout' = Append(stdout, "Generating Blockbuster-style icons...")
          /\ trace' = Append(trace, Event("makedirs", output_dir, 0))
          /\ pc' = "render"
          /\ UNCHANGED error
       \/ /\ \E err \in MakedirsErrors(dirExists) : Crash(err, output_dir)
          /\ UNCHANGED <<dirExists, stdout>>
    /\ UNCHANGED <<idx, icon, fs, icns, status, run, history, renderVars>>

\* icon = create_blockbuster_icon(size)
Render ==
    /\ pc = "render"
    /\ \E ok1 \in BOOLEAN, ok2 \in BOOLEAN :
         LET r == create_blockbuster_icon(sizes[idx], ok1, ok2)
         IN  IF IsRaised(r)
             THEN Crash("FontError", filename(sizes[idx])) /\ UNCHANGED icon
             ELSE /\ icon' = r
                  /\ trace' = Append(trace,
                                Event("render", filename(sizes[idx]), r.size))
                  /\ pc' = "save"
                  /\ UNCHANGED error
    /\ UNCHANGED <<idx, dirExists, fs, icns, stdout, status, run, history,
                   renderVars>>

\* The loop moves to the next size, or ends.
AfterIteration_OffByOne ==
    IF idx < Len(sizes) - 1
    THEN idx' = idx + 1 /\ pc' = "render"
    ELSE idx' = idx /\ pc' = "manifest"

AfterIteration ==
    IF idx < Len(sizes)
    THEN idx' = idx + 1 /\ pc' = "render"
    ELSE idx' = idx /\ pc' = "manifest"

\* icon.save(filepath, 'PNG'); print(...); if size <= 512: ...
Save ==
    /\ pc = "save"
    /\ \/ /\ fs' = Store(fs, filename(sizes[idx]), PngOf(icon))
          /\ trace' = Append(trace,
                        Event("save", filename(sizes[idx]), icon.size))
          /\ stdout' = Append(stdout, "Created " \o filename(sizes[idx]))
          /\ IF Has2x(sizes[idx])
             THEN pc' = "render_2x" /\ idx' = idx
             ELSE AfterIteration
          /\ UNCHANGED error
       \/ /\ Crash("OSError", filename(sizes[idx]))
          /\ UNCHANGED <<fs, stdout, idx>>
    /\ UNCHANGED <<icon, dirExists, icns, status, run, history, renderVars>>

\* icon_2x = create_blockbuster_icon(size * 2)
Render2x ==
    /\ pc = "render_2x"
    /\ \E ok1 \in BOOLEAN, ok2 \in BOOLEAN :
         LET r == create_blockbuster_icon(sizes[idx] * 2, ok1, ok2)
         IN  IF IsRaised(r)
             THEN Crash("FontError", filename_2x(sizes[idx])) /\ UNCHANGED icon
             ELSE /\ icon' = r
                  /\ trace' = Append(trace,
                                Event("render", filename_2x(sizes[idx]), r.size))
                  /\ pc' = "save_2x"
                  /\ UNCHANGED error
    /\ UNCHANGED <<idx, dirExists, fs, icns, stdout, status, run, history,
                   renderVars>>

\* icon_2x.save(filepath_2x, 'PNG'); print(...)
Save2x ==
    /\ pc = "save_2x"
    /\ \/ /\ fs' = Store(fs, filename_2x(sizes[idx]), PngOf(icon))
          /\ trace' = Append(trace,
                        Event("save", filename_2x(sizes[idx]), icon.size))
          /\ stdout' = Append(stdout, "Created " \o filename_2x(sizes[idx]))
          /\ AfterIteration
          /\ UNCHANGED error
       \/ /\ Crash("OSError", filename_2x(sizes[idx]))
          /\ UNCHANGED <<fs, stdout, idx>>
    /\ UNCHANGED <<icon, dirExists, icns, status, run, history, renderVars>>

\* with open(contents_path, 'w') as f: f.write(contents_json); print(...)
WriteManifest ==
    /\ pc = "manifest"
    /\ \/ /\ fs' = Store(fs, "Contents.json",
                     WriteText(IF "Contents.json" \in DOMAIN fs
                               THEN fs["Contents.json"] ELSE << >>,
                               contents_json))
          /\ trace' = Append(trace, Event("manifest", "Contents.json", 0))
          /\ stdout' = Append(stdout, "Created Contents.json")
          /\ pc' = "iconutil"
          /\ UNCHANGED error
       \/ /\ Crash("OSError", "Contents.json")
          /\ UNCHANGED <<fs, stdout>>
    /\ UNCHANGED <<idx, icon, dirExists, icns, status, run, history, renderVars>>

\* print("Generating .icns file..."); os.system("cd Resources && iconutil ...")
RunIconutil ==
    /\ pc = "iconutil"
    /\ stdout' = Append(stdout, "Generating .icns file...")
    /\ trace' = Append(trace, Event("iconutil", "AppIcon.icns", 0))
    /\ \E st \in SystemStatuses :
         /\ status' = st
         /\ icns' = (icns \/ st = 0)
         /\ pc' = AfterSystem(st)
         /\ error' = IF AfterSystem(st) = "crashed"
                     THEN "CalledProcessError" ELSE error
    /\ UNCHANGED <<idx, icon, dirExists, fs, run, history, renderVars>>

\* The three closing print calls; main returns.
Report ==
    /\ pc = "report"
    /\ stdout' = stdout \o
         << "Created AppIcon.icns",
            "Icon set complete! Files created in Resources/AppIcon.appiconset/",
            "To use in your app, add AppIcon.icns to your Xcode project." >>
    /\ pc' = "done"
    /\ history' = Append(history, fs)
    /\ UNCHANGED <<idx, icon, dirExists, fs, icns, trace, status, error, run,
                   renderVars>>

\* The script is started again; the file system is as the last run left it.
Rerun ==
    /\ pc \in {"done", "crashed"}
    /\ run < MaxRuns
    /\ run' = run + 1
    /\ pc' = "makedirs"
    /\ idx' = 1
    /\ icon' = NoIcon
    /\ stdout' = << >>
    /\ trace' = << >>
    /\ status' = -1
    /\ error' = "none"
    /\ UNCHANGED <<dirExists, fs, icns, history, renderVars>>

Next ==
    \/ Makedirs
    \/ Render
    \/ Save
    \/ Render2x
    \/ Save2x
    \/ WriteManifest
    \/ RunIconutil
    \/ Report
    \/ Rerun

Spec == Init /\ [][Next]_vars

(* ---------------------------------------------------------------------- *)
(* The renderer alone, over every size in RenderInputs                     *)
(* ---------------------------------------------------------------------- *)
RenderInputs == (1..MaxSize) \cup RenderedSizes \cup {2048}

InitRender ==
    /\ pc = "idle"
    /\ idx = 1
    /\ icon = NoIcon
    /\ dirExists = FALSE
    /\ fs = EmptyDir
    /\ icns = FALSE
    /\ stdout = << >>
    /\ trace = << >>
    /\ status = -1
    /\ error = "none"
    /\ run = 1
    /\ history = << >>
    /\ rpc = "call"
    /\ rsize \in RenderInputs
    /\ rok1 \in BOOLEAN
    /\ rok2 \in BOOLEAN
    /\ img = NoIcon

\* img = create_blockbuster_icon(size)
CallRender ==
    /\ rpc = "call"
    /\ img' = create_blockbuster_icon(rsize, rok1, rok2)
    /\ rpc' = "returned"
    /\ UNCHANGED <<rsize, rok1, rok2, mainVars>>

NextRender == CallRender

SpecRender == InitRender /\ [][NextRender]_vars

(* ---------------------------------------------------------------------- *)
(* Properties                                                              *)
(* ---------------------------------------------------------------------- *)
Range(seq) == {seq[k] : k \in 1..Len(seq)}

\* Files this run has written so far.
Written == {e.file : e \in {t \in Range(trace) : t.ev \in {"save", "manifest"}}}

\* A name of the form icon_NxN<suffix>.
IconName(n, suffix) ==
    "icon_" \o ToString(n) \o "x" \o ToString(n) \o suffix

ManifestSizes == {16, 32, 128, 256, 512}

StandardNames == {IconName(n, ".png") : n \in 1..2048}

DoubleNames == {IconName(n, "@2x.png") : n \in 1..2048}

ClosingLines ==
    << "Created AppIcon.icns",
       "Icon set complete! Files created in Resources/AppIcon.appiconset/",
       "To use in your app, add AppIcon.icns to your Xcode project." >>

\* C1: after a build that ran to completion, the manifest has ten entries,
\* the filenames it references are exactly icon_NxN.png and icon_NxN@2x.png
\* for N in {16, 32, 128, 256, 512}, and each of them was written during
\* that build.
C1_ManifestNamesWritten ==
    pc = "done" =>
        /\ "Contents.json" \in DOMAIN fs
        /\ Len(fs["Contents.json"]) = 10
        /\ {e.filename : e \in Range(fs["Contents.json"])}
             = {IconName(n, ".png") : n \in ManifestSizes}
               \cup {IconName(n, "@2x.png") : n \in ManifestSizes}
        /\ \A e \in Range(fs["Contents.json"]) :
             /\ e.filename \in Written
             /\ e.filename \in DOMAIN fs

C1_Witness ==
    /\ pc = "done"
    /\ "icon_512x512@2x.png" \in Written
    /\ \E e \in Range(fs["Contents.json"]) : e.filename = "icon_512x512@2x.png"

\* C2 as claimed: a completed build has written exactly 7 standard-density
\* images, exactly 5 double-density images and one manifest.
C2_Claim_FiveDouble ==
    pc = "done" =>
        /\ Cardinality(Written \cap StandardNames) = 7
        /\ Cardinality(Written \cap DoubleNames) = 5
        /\ Cardinality(Written \ (StandardNames \cup DoubleNames)) = 1

\* C2 amended: a completed build has written exactly 7 standard-density
\* images, exactly 6 double-density images (one for each of 16, 32, 64, 128,
\* 256, 512) and exactly one manifest.
C2_SevenSixOne ==
    pc = "done" =>
        /\ Cardinality(Written \cap StandardNames) = 7
        /\ Written \cap DoubleNames
             = {IconName(n, "@2x.png") : n \in {16, 32, 64, 128, 256, 512}}
        /\ Cardinality(Written \cap DoubleNames) = 6
        /\ Written \ (StandardNames \cup DoubleNames) = {"Contents.json"}
        /\ Cardinality(Written) = 14

C2_Witness ==
    /\ pc = "done"
    /\ run = 1
    /\ "icon_64x64@2x.png" \in DOMAIN fs
    /\ "icon_1024x1024.png" \in DOMAIN fs

Corners(size) ==
    {<<0, 0>>, <<size - 1, 0>>, <<0, size - 1>>, <<size - 1, size - 1>>}

\* C3 as claimed: for every size the build renders (and 2048), the returned
\* image is opaque at every pixel when size < 64; when size >= 64 its four
\* corner pixels have alpha 0 and its centre pixel has alpha 255.
C3_Claim_CornerAlpha ==
    (rpc = "returned" /\ rsize \in RenderedSizes \cup {2048}) =>
        IF rsize < 64
        THEN \A x \in 0..(rsize - 1), y \in 0..(rsize - 1) :
                AlphaAt(img, x, y) = {255}
        ELSE /\ \A c \in Corners(rsize) : AlphaAt(img, c[1], c[2]) = {0}
             /\ AlphaAt(img, rsize \div 2, rsize \div 2) = {255}

\* Labels drawn in yellow, and labels drawn as a translucent shadow.
Labels(image) == {c.text : c \in {t \in Range(image.texts) : t.fill = "yellow"}}

Shadows(image) == {c.text : c \in {t \in Range(image.texts) : t.alpha < 255}}

\* C4: a render draws text by exactly one of four cases: size < 32 no label;
\* 32 <= size < 128 only "N64", no shadow; 128 <= size < 256 only "N64", with
\* a shadow; size >= 256 "N64" and "EMULATOR", each with a shadow.  The
\* secondary label is never drawn without the primary one.
C4_TextCases ==
    rpc = "returned" =>
        /\ rsize < 32 => Labels(img) = {} /\ Shadows(img) = {}
        /\ (rsize >= 32 /\ rsize < 128) =>
              Labels(img) = {"N64"} /\ Shadows(img) = {}
        /\ (rsize >= 128 /\ rsize < 256) =>
              Labels(img) = {"N64"} /\ Shadows(img) = {"N64"}
        /\ rsize >= 256 =>
              /\ Labels(img) = {"N64", "EMULATOR"}
              /\ Shadows(img) = {"N64", "EMULATOR"}
        /\ "EMULATOR" \in Labels(img) => "N64" \in Labels(img)
        /\ Len(img.texts) = Cardinality(Labels(img)) + Cardinality(Shadows(img))

C4_Witness ==
    /\ rpc = "returned"
    /\ rsize = 127
    /\ Labels(img) = {"N64"}
    /\ Shadows(img) = {}

\* The order of renders and writes a complete run goes through.
ExpectedOrder ==
    << <<"makedirs", "Resources/AppIcon.appiconset">>,
       <<"render", "icon_16x16.png">>,        <<"save", "icon_16x16.png">>,
       <<"render", "icon_16x16@2x.png">>,     <<"save", "icon_16x16@2x.png">>,
       <<"render", "icon_32x32.png">>,        <<"save", "icon_32x32.png">>,
       <<"render", "icon_32x32@2x.png">>,     <<"save", "icon_32x32@2x.png">>,
       <<"render", "icon_64x64.png">>,        <<"save", "icon_64x64.png">>,
       <<"render", "icon_64x64@2x.png">>,     <<"save", "icon_64x64@2x.png">>,
       <<"render", "icon_128x128.png">>,      <<"save", "icon_128x128.png">>,
       <<"render", "icon_128x128@2x.png">>,   <<"save", "icon_128x128@2x.png">>,
       <<"render", "icon_256x256.png">>,      <<"save", "icon_256x256.png">>,
       <<"render", "icon_256x256@2x.png">>,   <<"save", "icon_256x256@2x.png">>,
       <<"render", "icon_512x512.png">>,      <<"save", "icon_512x512.png">>,
       <<"render", "icon_512x512@2x.png">>,   <<"save", "icon_512x512@2x.png">>,
       <<"render", "icon_1024x1024.png">>,    <<"save", "icon_1024x1024.png">>,
       <<"manifest", "Contents.json">>,
       <<"iconutil", "AppIcon.icns">> >>

\* The events of this run that are not a failure.
Steps == SelectSeq(trace, LAMBDA e : e.ev # "fail")

\* C5: in every run the images are rendered and written one at a time in
\* the order of the size list (standard file, then its @2x file when
\* size <= 512, each write before the next render), the manifest is written
\* only after all image files, and the packaging command is invoked exactly
\* once, only after the manifest.
C5_Order ==
    /\ Len(Steps) <= Len(ExpectedOrder)
    /\ \A k \in 1..Len(Steps) :
          <<Steps[k].ev, Steps[k].file>> = ExpectedOrder[k]
    /\ pc \in {"report", "done"} => Len(Steps) = Len(ExpectedOrder)
    /\ \A k \in 1..Len(trace) :
          trace[k].ev = "save" =>
             /\ k > 1
             /\ trace[k - 1].ev = "render"
             /\ trace[k - 1].file = trace[k].file
             /\ trace[k - 1].px = trace[k].px

C5_Witness ==
    /\ pc = "done"
    /\ Len(trace) = 29
    /\ trace[29].ev = "iconutil"
    /\ trace[28].ev = "manifest"

HasFail == \E e \in Range(trace) : e.ev = "fail"

\* Status lines printed by the steps of this run that completed.
PrintingSteps ==
    {k \in 1..Len(trace) : trace[k].ev \in {"makedirs", "save", "manifest"}}

\* C6 as claimed: any failure other than a font-load failure, an I/O error
\* or a missing packaging utility alike, ends the run at the failing step:
\* no later step runs and none of the later status lines is printed.
C6_Claim_AnyFailureTerminates ==
    (HasFail \/ status = 127) =>
        /\ pc = "crashed"
        /\ "Created AppIcon.icns" \notin Range(stdout)
        /\ ClosingLines[2] \notin Range(stdout)

\* C6 amended: an I/O error while creating the directory or writing an image
\* or the manifest ends the run at the failing step: the failure is the last
\* thing the run does and no status line is printed after it.  A missing or
\* failing packaging utility is not such a failure: the run goes on to print
\* its closing lines and ends normally.
C6_IOFailureTerminates ==
    /\ HasFail =>
          /\ pc = "crashed"
          /\ error \in {"OSError", "PermissionError"}
          /\ trace[Len(trace)].ev = "fail"
          /\ Cardinality({k \in 1..Len(trace) : trace[k].ev = "fail"}) = 1
          /\ Len(stdout) = Cardinality(PrintingSteps)
          /\ status = -1
          /\ \A k \in 1..3 : ClosingLines[k] \notin Range(stdout)
    /\ pc = "crashed" => HasFail
    /\ status > 0 => pc \in {"report", "done"} /\ ~HasFail
    /\ (status > 0 /\ pc = "done") =>
          \A k \in 1..3 : ClosingLines[k] \in Range(stdout)

C6_Witness ==
    /\ pc = "crashed"
    /\ error = "OSError"
    /\ trace[Len(trace)] = [ev |-> "fail", file |-> "icon_64x64.png", px |-> 0]
    /\ "icon_32x32@2x.png" \in Written

\* Text calls of an image that draw the given label (shadow included).
CallsFor(image, label) == {c \in Range(image.texts) : c.text = label}

\* C7: for every size >= 32, when loading the preferred font fails (for the
\* primary label, and independently for the secondary label when
\* size >= 256), the render does not raise: it uses the default font for
\* that label, draws the same labels as when the load succeeds, and returns
\* a size x size image.
C7_FontFallback ==
    (rpc = "returned" /\ rsize >= 32 /\ (~rok1 \/ ~rok2)) =>
        /\ ~IsRaised(img)
        /\ img.size = rsize
        /\ Labels(img) = Labels(create_blockbuster_icon(rsize, TRUE, TRUE))
        /\ Shadows(img) = Shadows(create_blockbuster_icon(rsize, TRUE, TRUE))
        /\ \A c \in CallsFor(img, "N64") :
              c.font.kind = IF rok1 THEN "truetype" ELSE "default"
        /\ \A c \in CallsFor(img, "EMULATOR") :
              c.font.kind = IF rok2 THEN "truetype" ELSE "default"

C7_Witness ==
    /\ rpc = "returned"
    /\ rsize = 256
    /\ rok1
    /\ ~rok2
    /\ \E c \in CallsFor(img, "EMULATOR") : c.font.kind = "default"
    /\ \E c \in CallsFor(img, "N64") : c.font.kind = "truetype"

\* C8: the build does not look at the outcome of the packaging command: once
\* it has been invoked, whatever its exit status, the run prints the same
\* closing lines, "Created AppIcon.icns" included, and ends normally.
C8_PackagingUnchecked ==
    status # -1 =>
        /\ pc \in {"report", "done"}
        /\ error = "none"
        /\ Len(stdout) >= 16
        /\ stdout[16] = "Generating .icns file..."
        /\ pc = "report" => Len(stdout) = 16
        /\ pc = "done" =>
              /\ Len(stdout) = 19
              /\ SubSeq(stdout, 17, 19) = ClosingLines

C8_Witness ==
    /\ pc = "done"
    /\ status = 127
    /\ ~icns
    /\ stdout[17] = "Created AppIcon.icns"

\* C9: running the build again after a completed build overwrites the files:
\* it does not fail because they exist, the output directory holds the same
\* filenames after the later run as after the earlier one, and the manifest
\* content is the same.
C9_RerunIdempotent ==
    /\ error # "FileExistsError"
    /\ \A i \in 1..Len(history), j \in 1..Len(history) :
          i < j =>
             /\ DOMAIN history[j] = DOMAIN history[i]
             /\ history[j]["Contents.json"] = history[i]["Contents.json"]
             /\ history[j]["Contents.json"] = contents_json

C9_Witness ==
    /\ Len(history) = 2
    /\ run = 2
    /\ pc = "done"
    /\ Cardinality(DOMAIN history[1]) = 14

\* Heights of the strips drawn along an edge.
StripHeights(strips) == {s[4] - s[2] : s \in Range(strips)}

\* C10 as claimed: for every size the build renders, when size >= 64 the
\* strips along the top and bottom edges do not all have the same height
\* (some border_width, others twice that); when size < 64 each edge is one
\* bar of height border_width.
C10_Claim_JaggedEdges ==
    (rpc = "returned" /\ rsize \in RenderedSizes) =>
        IF rsize >= 64
        THEN /\ StripHeights(img.top)
                  = {border_width(rsize), 2 * border_width(rsize)}
             /\ StripHeights(img.bottom)
                  = {border_width(rsize), 2 * border_width(rsize)}
        ELSE /\ Len(img.top) = 1
             /\ Len(img.bottom) = 1
             /\ StripHeights(img.top) = {border_width(rsize)}
             /\ StripHeights(img.bottom) = {border_width(rsize)}

====
